---- MODULE Spec2Model ----
(***************************************************************************)
(* A model of the ``gop run'' driver (cmd/internal/run/run.go): runCmd,    *)
(* saveGoFile, IsDir and goRun, over a small file system.                  *)
(*                                                                         *)
(* A path string is a sequence of tokens: the separator "/" or a file      *)
(* name.  The file system maps resolved paths (sequences of names) to      *)
(* nodes.  Every invocation of the command is one run of a process p.      *)
(* The install script (cmd/install.go) is modelled beside it, in the       *)
(* variable inst, and has a specification of its own.                      *)
(***************************************************************************)
EXTENDS Integers, Sequences, FiniteSets, TLC

VARIABLES fs, nruns, run, inst

vars == <<fs, nruns, run, inst>>

(* ------------------------------ bounds --------------------------------- *)

\* number of invocations of the command in one behaviour
MaxRuns == 2

\* number of chunks the child process writes to its error stream
MaxChildWrites == 1

\* number of write calls gox.WriteFile needs for one artifact
ArtifactChunks == 2

(* ------------------------------ paths ---------------------------------- *)

SEP == "/"

DOT == "."

DOTDOT == ".."

IsAbs(s) == Len(s) > 0 /\ s[1] = SEP

\* the non-empty elements of a path string, in order
RECURSIVE Comps(_)
Comps(s) ==
    IF s = <<>> THEN <<>>
    ELSE IF Head(s) = SEP THEN Comps(Tail(s))
    ELSE <<Head(s)>> \o Comps(Tail(s))

\* lexical elimination of "." and ".." (filepath.Clean); acc is the result so far
RECURSIVE Norm(_, _, _)
Norm(rooted, cs, acc) ==
    IF cs = <<>> THEN acc
    ELSE IF Head(cs) = DOT THEN Norm(rooted, Tail(cs), acc)
    ELSE IF Head(cs) = DOTDOT THEN
        IF acc # <<>> /\ acc[Len(acc)] # DOTDOT
            THEN Norm(rooted, Tail(cs), SubSeq(acc, 1, Len(acc) - 1))
        ELSE IF rooted THEN Norm(rooted, Tail(cs), acc)
        ELSE Norm(rooted, Tail(cs), Append(acc, DOTDOT))
    ELSE Norm(rooted, Tail(cs), Append(acc, Head(cs)))

\* the names cs joined by separators
RECURSIVE Sepd(_)
Sepd(cs) ==
    IF cs = <<>> THEN <<>>
    ELSE IF Len(cs) = 1 THEN <<cs[1]>>
    ELSE <<cs[1], SEP>> \o Sepd(Tail(cs))

Clean(s) ==
    IF s = <<>> THEN <<DOT>>
    ELSE LET cs == Norm(IsAbs(s), Comps(s), <<>>)
         IN  IF IsAbs(s) THEN <<SEP>> \o Sepd(cs)
             ELSE IF cs = <<>> THEN <<DOT>> ELSE Sepd(cs)

\* filepath.Join: the non-empty elements, separated, then cleaned
RECURSIVE JoinRaw(_)
JoinRaw(elems) ==
    IF elems = <<>> THEN <<>>
    ELSE IF Head(elems) = <<>> THEN JoinRaw(Tail(elems))
    ELSE LET rest == JoinRaw(Tail(elems))
         IN  IF rest = <<>> THEN Head(elems) ELSE Head(elems) \o <<SEP>> \o rest

Join(elems) ==
    IF JoinRaw(elems) = <<>> THEN <<>> ELSE Clean(JoinRaw(elems))

\* index of the last separator of s, 0 when there is none
RECURSIVE LastSep(_, _)
LastSep(s, i) ==
    IF i = 0 THEN 0 ELSE IF s[i] = SEP THEN i ELSE LastSep(s, i - 1)

\* filepath.Split: the text up to and including the last separator, and the rest
Split(s) ==
    LET i == LastSep(s, Len(s))
    IN  [dir |-> SubSeq(s, 1, i), file |-> SubSeq(s, i + 1, Len(s))]

\* filepath.Dir
Dir(s) == Clean(Split(s).dir)

\* the working directory of every invocation
Cwd == <<SEP, "w">>

\* filepath.Abs
Abs(s) == IF IsAbs(s) THEN Clean(s) ELSE Join(<<Cwd, s>>)

\* the resolved location an absolute path string names
Resolve(s) == Norm(TRUE, Comps(s), <<>>)

(* --------------------------- file system ------------------------------- *)

\* a node of the file system; by is the content of a generated file: for every
\* chunk the number of the run that wrote it (0 for a hole)
DirNode == [kind |-> "dir", gen |-> FALSE, by |-> <<>>]

SrcNode == [kind |-> "file", gen |-> FALSE, by |-> <<>>]

\* a file written by gox.WriteFile: the serialised package of run number id
GenNode(id) == [kind |-> "file", gen |-> TRUE, by |-> [i \in 1..ArtifactChunks |-> id]]

\* the file system before the first invocation
InitFS ==
    (<<>> :> DirNode) @@ (<<"w">> :> DirNode) @@ (<<"w", "p">> :> DirNode)
    @@ (<<"w", "p", "a.gop">> :> SrcNode) @@ (<<"w", "f.gop">> :> SrcNode)

Exists(f, loc) == loc \in DOMAIN f

IsDirAt(f, loc) == Exists(f, loc) /\ f[loc].kind = "dir"

Parent(loc) == SubSeq(loc, 1, Len(loc) - 1)

Prefixes(loc) == {SubSeq(loc, 1, n) : n \in 0..Len(loc)}

\* the names of the entries directly inside the directory at loc
Children(f, loc) ==
    {q[Len(q)] : q \in {x \in DOMAIN f : Len(x) = Len(loc) + 1 /\ Parent(x) = loc}}

\* os.Stat on an absolute path: the node, or an error
Stat(f, s) ==
    IF Exists(f, Resolve(s))
        THEN [err |-> FALSE, node |-> f[Resolve(s)]]
        ELSE [err |-> TRUE, node |-> DirNode]

\* IsDir checks a target path is dir or not.
IsDir(f, target) ==
    LET st == Stat(f, target)
    IN  IF st.err THEN [isDir |-> FALSE, err |-> TRUE]
        ELSE [isDir |-> st.node.kind = "dir", err |-> FALSE]

\* os.MkdirAll(dir): the possible results on file system f.  envOk is whether the
\* environment (permissions, free space) lets a missing directory be created.
MkdirAll(f, dir, envOk) ==
    LET loc == Resolve(dir)
    IN  IF IsDirAt(f, loc) THEN [err |-> FALSE, fs |-> f]
        ELSE IF \E q \in Prefixes(loc) : Exists(f, q) /\ ~IsDirAt(f, q)
            THEN [err |-> TRUE, fs |-> f]
        ELSE IF ~envOk THEN [err |-> TRUE, fs |-> f]
        ELSE [err |-> FALSE,
              fs |-> [q \in DOMAIN f \cup Prefixes(loc) |->
                         IF q \in DOMAIN f THEN f[q] ELSE DirNode]]

\* gox.WriteFile(gofile, pkg): creates or truncates the file and writes the
\* package; on failure the file system is left as it was.
WriteFile(f, gofile, pkg, envOk) ==
    LET loc == Resolve(gofile)
    IN  IF loc = <<>> \/ ~IsDirAt(f, Parent(loc)) \/ IsDirAt(f, loc) \/ ~envOk
            THEN [err |-> TRUE, fs |-> f]
        ELSE [err |-> FALSE,
              fs |-> [q \in DOMAIN f \cup {loc} |->
                         IF q = loc THEN GenNode(pkg.run) ELSE f[q]]]

\* variant: the file is opened for appending and keeps what it holds
CreateFile_Append(f, gofile, envOk) ==
    LET loc == Resolve(gofile)
    IN  IF loc = <<>> \/ ~IsDirAt(f, Parent(loc)) \/ IsDirAt(f, loc) \/ ~envOk
            THEN [err |-> TRUE, fs |-> f, off |-> 0]
        ELSE IF Exists(f, loc) THEN [err |-> FALSE, fs |-> f, off |-> Len(f[loc].by)]
        ELSE [err |-> FALSE, off |-> 0,
              fs |-> [q \in DOMAIN f \cup {loc} |->
                         IF q = loc THEN [kind |-> "file", gen |-> TRUE, by |-> <<>>]
                         ELSE f[q]]]

\* the first step of gox.WriteFile, os.Create(gofile): the file is created or
\* truncated, and writing starts at offset 0
CreateFile(f, gofile, envOk) ==
    LET loc == Resolve(gofile)
    IN  IF loc = <<>> \/ ~IsDirAt(f, Parent(loc)) \/ IsDirAt(f, loc) \/ ~envOk
            THEN [err |-> TRUE, fs |-> f, off |-> 0]
        ELSE [err |-> FALSE, off |-> 0,
              fs |-> [q \in DOMAIN f \cup {loc} |->
                         IF q = loc THEN [kind |-> "file", gen |-> TRUE, by |-> <<>>]
                         ELSE f[q]]]

\* a later step of gox.WriteFile: run id writes its next chunk at the offset off
\* of its own file descriptor; chunks skipped over are a hole
WriteChunk(f, gofile, off, id) ==
    LET loc == Resolve(gofile)
        old == f[loc].by
        n   == IF Len(old) > off + 1 THEN Len(old) ELSE off + 1
    IN  [f EXCEPT ![loc].by =
            [i \in 1..n |-> IF i = off + 1 THEN id
                            ELSE IF i <= Len(old) THEN old[i] ELSE 0]]

(* ------------------------ external components -------------------------- *)

PkgNames == {"main", "lib"}

\* the nil *ast.Package
NoPkg == [name |-> "", nil |-> TRUE]

Pkg(n) == [name |-> n, nil |-> FALSE]

\* the nil *gox.Package
NoArtifact == [pkg |-> "", run |-> 0]

\* parser.ParseDir / parser.Parse: an error, or a map from package name to
\* parsed package (every package of a directory, the one package of a file)
ParseResults(isDir) ==
    {[err |-> TRUE, pkgs |-> <<>>]}
    \cup {[err |-> FALSE, pkgs |-> [n \in S |-> Pkg(n)]] :
             S \in {T \in SUBSET PkgNames : isDir \/ Cardinality(T) = 1}}

\* cl.NewPackage("", pkg, fset, conf): a compiled package or an error; a
\* missing main package is an error of its own
NewPackage(pkg, id) ==
    IF pkg.nil THEN {[err |-> "MissingMainError", out |-> NoArtifact]}
    ELSE {[err |-> "nil", out |-> [pkg |-> pkg.name, run |-> id]],
          [err |-> "LoweringError", out |-> NoArtifact]}

\* cmd.Usage(os.Stderr): prints the usage; either returns to the caller or
\* ends the process
UsageExits == BOOLEAN

(* ------------------------------ inputs --------------------------------- *)

Procs == {1}

\* the flag values of one invocation: -asm -quiet -debug -prof
FlagSets == [asm : BOOLEAN, quiet : BOOLEAN, debug : BOOLEAN, prof : BOOLEAN]

\* the positional arguments tried: relative and absolute, directories and files,
\* existing and missing
ArgPaths ==
    { <<>>,
      <<"p">>,
      <<SEP, "w", SEP, "p", SEP>>,
      <<DOTDOT>>,
      <<"f.gop">>,
      <<"p", SEP, "a.gop">>,
      <<"nope">>,
      <<"nope", SEP, "x.gop">> }

ArgLists == {<<>>} \cup {<<a>> : a \in ArgPaths}

\* flag.Arg(i): the i-th positional argument, "" when there is none
Arg(args, i) == IF i + 1 <= Len(args) THEN args[i + 1] ELSE <<>>

NArg(args) == Len(args)

(* --------------------------- log levels -------------------------------- *)

\* log.SetOutputLevel(0x7000)
LevelQuiet == 28672

\* log.Ldebug
Ldebug == 0

\* the level the logger starts with (log.Linfo)
LevelDefault == 1

(* ----------------------------- outcomes -------------------------------- *)

Running == "running"

Returned == "return"

UsageExit == "exit: usage"

PanicProf == "panic: TODO: profile not impl"

PanicAsm == "panic: TODO: gop run -asm not impl"

FatalArg == "fatal: input arg check failed:"

FatalParse == "fatal: parser.Parse failed:"

FatalNewPackage == "fatal: cl.NewPackage failed:"

FatalSave == "fatal: saveGoFile failed:"

FatalGoRun == "fatal: go run failed:"

NilErr == [kind |-> "nil", Stderr |-> <<>>]

Err(k) == [kind |-> k, Stderr |-> <<>>]

\* the *exec.ExitError cmd.Run returns: Stderr is filled by Cmd.Output only, and
\* goRun hands the child os.Stderr, so the field is empty
ExitError == [kind |-> "ExitError", Stderr |-> <<>>]

(* ----------------------------- run state ------------------------------- *)

\* the state of a process that has not been invoked
IdleRun ==
    [pc |-> "idle", id |-> 0,
     flags |-> [asm |-> FALSE, quiet |-> FALSE, debug |-> FALSE, prof |-> FALSE],
     args |-> <<>>, logLevel |-> LevelDefault, goxDebug |-> FALSE,
     target |-> <<>>, isDir |-> FALSE, pkgs |-> <<>>, out |-> NoArtifact,
     gofile |-> <<>>, err |-> NilErr, outcome |-> Running,
     calls |-> <<>>, stderr |-> <<>>,
     child |-> "none", cmd |-> [path |-> <<>>, dir |-> <<>>], childWrites |-> 0,
     status |-> 0, woff |-> 0, wleft |-> 0, wseen |-> {}, wdone |-> {},
     fsStart |-> InitFS]

\* the install script (cmd/install.go) is not running
NoInst == [pc |-> "off"]

Init ==
    /\ fs = InitFS
    /\ nruns = 0
    /\ run = [p \in Procs |-> IdleRun]
    /\ inst = NoInst

\* the run of p ends with outcome o
Finish(r, o) == [r EXCEPT !.pc = "done", !.outcome = o]

Called(r, name) == [r EXCEPT !.calls = Append(@, name)]

\* the run has made the call
Has(r, name) == \E i \in DOMAIN r.calls : r.calls[i] = name

\* the shell invokes ``gop run'' with some flags and arguments
Start(p) ==
    /\ run[p].pc \in {"idle", "done"}
    /\ nruns < MaxRuns
    /\ \E fl \in FlagSets, as \in ArgLists :
          run' = [run EXCEPT ![p] =
                     [IdleRun EXCEPT !.pc = "begin", !.id = nruns + 1,
                                     !.flags = fl, !.args = as, !.fsStart = fs]]
    /\ nruns' = nruns + 1
    /\ UNCHANGED <<fs, inst>>

\* variant: -debug is looked at before -quiet
SetLogLevel_DebugFirst(r) ==
    IF r.flags.debug THEN [r EXCEPT !.logLevel = Ldebug, !.goxDebug = TRUE]
    ELSE IF r.flags.quiet THEN [r EXCEPT !.logLevel = LevelQuiet]
    ELSE r

\* log level chosen from -quiet and -debug
SetLogLevel(r) ==
    IF r.flags.quiet THEN [r EXCEPT !.logLevel = LevelQuiet]
    ELSE IF r.flags.debug THEN [r EXCEPT !.logLevel = Ldebug, !.goxDebug = TRUE]
    ELSE r

\* variant: -prof is only looked at when the run is over
ProfCheck_Late(r) == [r EXCEPT !.pc = "check"]

\* -prof is not implemented
ProfCheck(r) == IF r.flags.prof THEN Finish(r, PanicProf) ELSE [r EXCEPT !.pc = "check"]

\* runCmd up to the creation of the file set: flag parsing, usage, log level, -prof
Begin(p) ==
    /\ run[p].pc = "begin"
    /\ LET r == run[p]
       IN  IF NArg(r.args) < 1
             THEN \E exits \in UsageExits :
                     run' = [run EXCEPT ![p] =
                                IF exits THEN Finish(Called(r, "Usage"), UsageExit)
                                ELSE ProfCheck(SetLogLevel(Called(r, "Usage")))]
             ELSE run' = [run EXCEPT ![p] = ProfCheck(SetLogLevel(r))]
    /\ UNCHANGED <<fs, nruns, inst>>

\* variant: the error of IsDir is dropped
TargetCheck_IgnoreErr(p) ==
    /\ run[p].pc = "check"
    /\ LET r  == Called([run[p] EXCEPT !.target = Abs(Arg(run[p].args, 0))], "IsDir")
           st == IsDir(fs, r.target)
       IN  run' = [run EXCEPT ![p] = [r EXCEPT !.isDir = st.isDir, !.pc = "parse"]]
    /\ UNCHANGED <<fs, nruns, inst>>

\* variant: -asm is looked at before the target is checked
TargetCheck_AsmFirst(p) ==
    /\ run[p].pc = "check"
    /\ LET r  == Called([run[p] EXCEPT !.target = Abs(Arg(run[p].args, 0))], "IsDir")
           st == IsDir(fs, r.target)
       IN  run' = [run EXCEPT ![p] =
                      IF run[p].flags.asm THEN Finish(run[p], PanicAsm)
                      ELSE IF st.err
                          THEN Finish([r EXCEPT !.err = Err("PathError")], FatalArg)
                      ELSE [r EXCEPT !.isDir = st.isDir, !.pc = "parse"]]
    /\ UNCHANGED <<fs, nruns, inst>>

\* target, _ := filepath.Abs(flag.Arg(0)); isDir, err := IsDir(target)
TargetCheck(p) ==
    /\ run[p].pc = "check"
    /\ LET r  == Called([run[p] EXCEPT !.target = Abs(Arg(run[p].args, 0))], "IsDir")
           st == IsDir(fs, r.target)
       IN  run' = [run EXCEPT ![p] =
                      IF st.err THEN Finish([r EXCEPT !.err = Err("PathError")], FatalArg)
                      ELSE [r EXCEPT !.isDir = st.isDir, !.pc = "parse"]]
    /\ UNCHANGED <<fs, nruns, inst>>

\* the parser is chosen by the kind of the target
ParserFor(isDir) == IF isDir THEN "ParseDir" ELSE "Parse"

\* variant: a parse error is logged and the run goes on
ParseStep_NoHalt(p) ==
    /\ run[p].pc = "parse"
    /\ LET r == Called(run[p], ParserFor(run[p].isDir))
       IN  \E res \in ParseResults(r.isDir) :
              run' = [run EXCEPT ![p] =
                         IF res.err
                             THEN [r EXCEPT !.err = Err("ParseError"), !.pc = "lower"]
                         ELSE [r EXCEPT !.pkgs = res.pkgs, !.pc = "lower"]]
    /\ UNCHANGED <<fs, nruns, inst>>

ParseStep(p) ==
    /\ run[p].pc = "parse"
    /\ LET r == Called(run[p], ParserFor(run[p].isDir))
       IN  \E res \in ParseResults(r.isDir) :
              run' = [run EXCEPT ![p] =
                         IF res.err
                             THEN Finish([r EXCEPT !.err = Err("ParseError")], FatalParse)
                         ELSE [r EXCEPT !.pkgs = res.pkgs, !.pc = "lower"]]
    /\ UNCHANGED <<fs, nruns, inst>>

\* variant: the lookup takes whichever package the map holds
Lookup_Any(pkgs, name) ==
    IF DOMAIN pkgs # {} THEN pkgs[CHOOSE n \in DOMAIN pkgs : TRUE] ELSE NoPkg

\* pkgs["main"]: the entry, or nil when the map has none
Lookup(pkgs, name) == IF name \in DOMAIN pkgs THEN pkgs[name] ELSE NoPkg

\* variant: -asm is never looked at
AsmCheck_Never(r) == [r EXCEPT !.pc = "mkdir"]

\* -asm is not implemented
AsmCheck(r) == IF r.flags.asm THEN Finish(r, PanicAsm) ELSE [r EXCEPT !.pc = "mkdir"]

\* variant: -asm is looked at before the package is lowered
Lower_AsmFirst(p) ==
    /\ run[p].pc = "lower"
    /\ IF run[p].flags.asm
         THEN run' = [run EXCEPT ![p] = Finish(run[p], PanicAsm)]
         ELSE LET r == Called(run[p], "NewPackage")
              IN  \E res \in NewPackage(Lookup(r.pkgs, "main"), r.id) :
                     run' = [run EXCEPT ![p] =
                                IF res.err # "nil"
                                    THEN Finish([r EXCEPT !.err = Err(res.err)],
                                                FatalNewPackage)
                                ELSE [r EXCEPT !.out = res.out, !.pc = "mkdir"]]
    /\ UNCHANGED <<fs, nruns, inst>>

\* out, err := cl.NewPackage("", pkgs["main"], fset, conf), then the -asm check
Lower(p) ==
    /\ run[p].pc = "lower"
    /\ LET r == Called(run[p], "NewPackage")
       IN  \E res \in NewPackage(Lookup(r.pkgs, "main"), r.id) :
              run' = [run EXCEPT ![p] =
                         IF res.err # "nil"
                             THEN Finish([r EXCEPT !.err = Err(res.err)], FatalNewPackage)
                         ELSE AsmCheck([r EXCEPT !.out = res.out])]
    /\ UNCHANGED <<fs, nruns, inst>>

\* the name of the artifact of a directory target
AutogenName == "gop_autogen.go"

\* the hidden directory holding the artifact of a file target
HiddenDir == ".gop"

\* s + suffix, for a string s that does not end with a separator
StrCat(s, suffix) ==
    IF s = <<>> THEN <<suffix>>
    ELSE SubSeq(s, 1, Len(s) - 1) \o <<s[Len(s)] \o suffix>>

\* variant: the artifact of a directory target goes to the hidden directory too
GoFile_Hidden(isDir, target) ==
    IF isDir THEN Join(<<target, <<HiddenDir>>, <<AutogenName>>>>)
    ELSE LET sp == Split(target)
         IN  Join(<<sp.dir, <<HiddenDir>>, StrCat(sp.file, ".go")>>)

\* variant: the artifact of a file target is put beside the source file
GoFile_Visible(isDir, target) ==
    IF isDir THEN target \o <<SEP, AutogenName>> ELSE StrCat(target, ".go")

\* the path the artifact is written to
GoFile(isDir, target) ==
    IF isDir THEN target \o <<SEP, AutogenName>>
    ELSE LET sp == Split(target)
         IN  Join(<<sp.dir, <<HiddenDir>>, StrCat(sp.file, ".go")>>)

\* variant: the error of os.MkdirAll is dropped
MkdirStep_IgnoreErr(p) ==
    /\ run[p].pc = "mkdir"
    /\ \E envOk \in BOOLEAN :
          LET r0  == run[p]
              r   == Called([r0 EXCEPT !.gofile = GoFile(r0.isDir, r0.target)], "MkdirAll")
              res == MkdirAll(fs, Dir(r.gofile), envOk)
          IN  /\ fs' = res.fs
              /\ run' = [run EXCEPT ![p] = [r EXCEPT !.pc = "write"]]
    /\ UNCHANGED <<nruns, inst>>

\* gofile is computed; saveGoFile creates its directory
MkdirStep(p) ==
    /\ run[p].pc = "mkdir"
    /\ \E envOk \in BOOLEAN :
          LET r0  == run[p]
              r   == Called([r0 EXCEPT !.gofile = GoFile(r0.isDir, r0.target)], "MkdirAll")
              res == MkdirAll(fs, Dir(r.gofile), envOk)
          IN  /\ fs' = res.fs
              /\ run' = [run EXCEPT ![p] =
                            IF res.err
                                THEN Finish([r EXCEPT !.err = Err("WriteError")], FatalSave)
                            ELSE [r EXCEPT !.pc = "write"]]
    /\ UNCHANGED <<nruns, inst>>

\* saveGoFile writes the package with gox.WriteFile
WriteStep(p) ==
    /\ run[p].pc = "write"
    /\ \E envOk \in BOOLEAN :
          LET r   == Called(run[p], "WriteFile")
              res == WriteFile(fs, r.gofile, r.out, envOk)
          IN  /\ fs' = res.fs
              /\ run' = [run EXCEPT ![p] =
                            IF res.err
                                THEN Finish([r EXCEPT !.err = Err("WriteError")], FatalSave)
                            ELSE [r EXCEPT !.pc = "gorun"]]
    /\ UNCHANGED <<nruns, inst>>

\* the exit statuses of the child that are tried
ExitStatuses == {0, 3}

\* what cmd.Run returns for an exit status
WaitErr(status) == IF status = 0 THEN NilErr ELSE ExitError

\* variant: every error of goRun is fatal
AfterGoRun_AllFatal(r) ==
    IF r.err.kind = "nil" THEN Finish(r, Returned) ELSE Finish(r, FatalGoRun)

\* variant: every error of goRun is relayed as an exit error
AfterGoRun_Swallow(r) ==
    IF r.err.kind = "nil" THEN Finish(r, Returned)
    ELSE Finish([Called(r, "Stderr.Write") EXCEPT
                    !.stderr = Append(@, [by |-> "runCmd", bytes |-> r.err.Stderr])],
                Returned)

\* the switch on the error of goRun, and the end of runCmd
AfterGoRun(r) ==
    IF r.err.kind = "nil"
        THEN IF r.flags.prof THEN Finish(r, PanicProf) ELSE Finish(r, Returned)
    ELSE IF r.err.kind = "ExitError"
        THEN LET w == [Called(r, "Stderr.Write") EXCEPT
                          !.stderr = Append(@, [by |-> "runCmd", bytes |-> r.err.Stderr])]
             IN  IF w.flags.prof THEN Finish(w, PanicProf) ELSE Finish(w, Returned)
    ELSE Finish(r, FatalGoRun)

\* variant: cmd.Dir is left unset, so the child runs in the working directory
GoRunCmd_NoDir(target) == [path |-> target, dir |-> Cwd]

\* exec.Command("go", "run", target) with cmd.Dir, _ = filepath.Split(target)
GoRunCmd(target) == [path |-> target, dir |-> Split(target).dir]

\* goRun starts the child: ``go'' is found and started, or cmd.Run fails at once
GoRunStart(p) ==
    /\ run[p].pc = "gorun"
    /\ \E started \in BOOLEAN :
          LET r == Called([run[p] EXCEPT !.cmd = GoRunCmd(run[p].gofile)], "goRun")
          IN  run' = [run EXCEPT ![p] =
                         IF started THEN [r EXCEPT !.child = "running", !.pc = "wait"]
                         ELSE AfterGoRun([r EXCEPT !.err = Err("ExecutionError")])]
    /\ UNCHANGED <<fs, nruns, inst>>

\* what the child may write to its error stream
ChildBytes == {<<"boom">>}

\* the child writes to its error stream, which is os.Stderr of the parent
ChildWrite(p) ==
    /\ run[p].pc = "wait"
    /\ run[p].child = "running"
    /\ run[p].childWrites < MaxChildWrites
    /\ \E b \in ChildBytes :
          run' = [run EXCEPT ![p] =
                     [@ EXCEPT !.stderr = Append(@, [by |-> "child", bytes |-> b]),
                               !.childWrites = @ + 1]]
    /\ UNCHANGED <<fs, nruns, inst>>

\* the child exits with some status
ChildExit(p) ==
    /\ run[p].pc = "wait"
    /\ run[p].child = "running"
    /\ \E status \in ExitStatuses :
          run' = [run EXCEPT ![p] = [@ EXCEPT !.child = "exited", !.status = status]]
    /\ UNCHANGED <<fs, nruns, inst>>

\* variant: the wait for the child is given up while the child still runs
WaitReturn_Timeout(p) ==
    /\ run[p].pc = "wait"
    /\ run' = [run EXCEPT ![p] =
                  AfterGoRun([run[p] EXCEPT
                                 !.err = IF run[p].child = "exited"
                                             THEN WaitErr(run[p].status)
                                         ELSE Err("ExecutionError")])]
    /\ UNCHANGED <<fs, nruns, inst>>

\* cmd.Run returns once the child has exited, and runCmd handles its error
WaitReturn(p) ==
    /\ run[p].pc = "wait"
    /\ run[p].child = "exited"
    /\ run' = [run EXCEPT ![p] = AfterGoRun([run[p] EXCEPT !.err = WaitErr(run[p].status)])]
    /\ UNCHANGED <<fs, nruns, inst>>

Step(p) ==
    \/ Start(p)
    \/ Begin(p)
    \/ TargetCheck(p)
    \/ ParseStep(p)
    \/ Lower(p)
    \/ MkdirStep(p)
    \/ WriteStep(p)
    \/ GoRunStart(p)
    \/ ChildWrite(p)
    \/ ChildExit(p)
    \/ WaitReturn(p)

Next == \E p \in Procs : Step(p)

Spec == Init /\ [][Next]_vars

\* runCmd goes on when cmd.Run can return; the child is under no obligation to exit
SpecLive == Spec /\ \A p \in Procs : WF_vars(WaitReturn(p))

(* ------------------------- concurrent runs ----------------------------- *)

\* two invocations of the command may be in progress at once
ConcProcs == {1, 2}

\* the arguments of the concurrent invocations: two spellings of one directory,
\* and a file
ConcArgs == {<<"p">>, <<SEP, "w", SEP, "p", SEP>>, <<"f.gop">>}

InitConc ==
    /\ fs = InitFS
    /\ nruns = 0
    /\ run = [p \in ConcProcs |-> IdleRun]
    /\ inst = NoInst

\* the shell invokes ``gop run <target>'' without flags, once for every process
StartConc(p) ==
    /\ run[p].pc = "idle"
    /\ nruns < MaxRuns
    /\ \E a \in ConcArgs :
          run' = [run EXCEPT ![p] =
                     [IdleRun EXCEPT !.pc = "begin", !.id = nruns + 1,
                                     !.args = <<a>>, !.fsStart = fs]]
    /\ nruns' = nruns + 1
    /\ UNCHANGED <<fs, inst>>

\* gox.WriteFile has returned without error in the run
WriteDone(r) ==
    /\ r.pc \in {"gorun", "wait", "done"}
    /\ Has(r, "WriteFile")
    /\ r.err.kind # "WriteError"

\* the runs of the other processes whose write to the location loc is complete
DoneOn(p, loc) ==
    {run[q].id : q \in {x \in DOMAIN run \ {p} :
                           WriteDone(run[x]) /\ Resolve(run[x].gofile) = loc}}

\* gox.WriteFile begins: os.Create(gofile)
CreateStep(p) ==
    /\ run[p].pc = "write"
    /\ \E envOk \in BOOLEAN :
          LET r   == Called(run[p], "WriteFile")
              res == CreateFile(fs, r.gofile, envOk)
          IN  /\ fs' = res.fs
              /\ run' = [run EXCEPT ![p] =
                            IF res.err
                                THEN Finish([r EXCEPT !.err = Err("WriteError")], FatalSave)
                            ELSE [r EXCEPT !.pc = "writing", !.woff = res.off,
                                           !.wleft = ArtifactChunks,
                                           !.wseen = DoneOn(p, Resolve(r.gofile))]]
    /\ UNCHANGED <<nruns, inst>>

\* gox.WriteFile writes the next chunk of the package, and returns after the last
ChunkStep(p) ==
    /\ run[p].pc = "writing"
    /\ LET r == run[p]
       IN  /\ fs' = WriteChunk(fs, r.gofile, r.woff, r.id)
           /\ run' = [run EXCEPT ![p] =
                         IF r.wleft = 1
                             THEN [r EXCEPT !.woff = @ + 1, !.wleft = 0, !.pc = "gorun",
                                            !.wdone = DoneOn(p, Resolve(r.gofile))]
                         ELSE [r EXCEPT !.woff = @ + 1, !.wleft = @ - 1]]
    /\ UNCHANGED <<nruns, inst>>

StepConc(p) ==
    \/ StartConc(p)
    \/ Begin(p)
    \/ TargetCheck(p)
    \/ ParseStep(p)
    \/ Lower(p)
    \/ MkdirStep(p)
    \/ CreateStep(p)
    \/ ChunkStep(p)
    \/ GoRunStart(p)
    \/ ChildWrite(p)
    \/ ChildExit(p)
    \/ WaitReturn(p)

NextConc == \E p \in ConcProcs : StepConc(p)

\* runs of the command with no coordination between them
SpecConc == InitConc /\ [][NextConc]_vars

(* ----------------------- the install script ---------------------------- *)
(* cmd/install.go: main chooses one action by its flags; the install       *)
(* action builds the tools and links the repository into the home          *)
(* directory.  The script looks at a few paths only, named here by what    *)
(* they are.                                                               *)

\* the keys of flagActionMap
ActionFlags == {"install", "test", "build", "uninstall"}

\* the values of the six flags after flag.Parse
InstFlagSets == [ActionFlags \cup {"proxy", "autoproxy"} -> BOOLEAN]

\* the tools ``go install ./...'' puts into the Go bin directory
ToolFiles == {"gop", "gopfmt", "goptestgo"}

\* filesToRemove: gopLocalLink and the tools
FilesToRemove == {"link"} \cup ToolFiles

\* what may exist before the script runs: <gopRoot>/cmd, <gopRoot>/.git,
\* gopLocalLink and an installed tool
InitPaths == {"cmd", ".git", "link", "gop"}

checkPathExist(files, path) == path \in files

\* one ``-X github.com/goplus/gop/env.<name>=<value>'' of the build flags
Setting(name, value) == <<name, value>>

\* what the git commands may print: nothing (the command failed), or a value
GitOut(v) == {"", v}

getGitInfo(files, commit) ==
    IF checkPathExist(files, ".git") THEN [commit |-> commit, ok |-> TRUE]
    ELSE [commit |-> "", ok |-> FALSE]

\* the build flags, as the sequence of their settings; commit, branch and
\* buildVer are what getRevCommit, getBuildBranch and findTag return
getGopBuildFlags(files, commit, branch, buildVer) ==
    LET f1  == <<Setting("defaultGopRoot", "gopRoot")>>
        \* the second statement assigns: the flags of the first are dropped
        f2  == <<Setting("buildDate", "now")>>
        git == getGitInfo(files, commit)
        f3  == Append(f2, Setting("buildCommit", git.commit))
        f4  == IF branch # "" THEN Append(f3, Setting("buildBranch", branch)) ELSE f3
        f5  == IF buildVer # "" THEN Append(f4, Setting("buildVersion", buildVer)) ELSE f4
    IN  IF git.ok THEN f5 ELSE f2

\* the script before main; exit is -1 while the process runs
IdleInst ==
    [pc |-> "start", flags |-> [k \in ActionFlags \cup {"proxy", "autoproxy"} |-> FALSE],
     files0 |-> {}, files |-> {}, linkIsRoot |-> FALSE, useGoProxy |-> FALSE,
     seen |-> {}, action |-> "", ran |-> <<>>, calls |-> <<>>,
     buildFlags |-> <<>>, goproxy |-> FALSE, buildFailed |-> FALSE,
     symlinked |-> FALSE, usage |-> FALSE, exit |-> -1]

\* the script is started in some directory: when that directory is
\* gopLocalLink itself, the path exists
InitInstall ==
    /\ fs = InitFS
    /\ nruns = 0
    /\ run = [p \in Procs |-> IdleRun]
    /\ \E fl \in SUBSET InitPaths, lr \in BOOLEAN :
          /\ lr => "link" \in fl
          /\ inst = [IdleInst EXCEPT !.files0 = fl, !.files = fl, !.linkIsRoot = lr]

InstCalled(i, f) == [i EXCEPT !.calls = Append(@, f)]

\* main up to the loop: the flags are parsed and useGoProxy is decided
InstMain ==
    /\ inst.pc = "start"
    /\ \E f \in InstFlagSets, isInChina \in BOOLEAN :
          inst' = [inst EXCEPT !.flags = f, !.pc = "range",
                               !.useGoProxy = IF ~f.proxy /\ f.autoproxy
                                                  THEN isInChina ELSE f.proxy]
    /\ UNCHANGED <<fs, nruns, run>>

\* variant: the loop goes on after an action
Return_Continue(i) == [i EXCEPT !.pc = "range"]

\* ``action(); return'': main returns after the action, the process exits with 0
Return(i) == [i EXCEPT !.pc = "done", !.exit = 0]

\* the first step of the action of the flag k
Entry(k) == IF k \in {"install", "build"} THEN "build" ELSE k

\* one iteration of the loop over flagActionMap, whose order Go leaves open;
\* after the last, the usage is printed
RangeStep ==
    /\ inst.pc = "range"
    /\ IF inst.seen = ActionFlags
           THEN inst' = [inst EXCEPT !.usage = TRUE, !.pc = "done", !.exit = 0]
       ELSE \E k \in ActionFlags \ inst.seen :
               inst' = IF inst.flags[k]
                           THEN [inst EXCEPT !.seen = @ \cup {k}, !.action = k,
                                             !.ran = Append(@, k), !.pc = Entry(k)]
                       ELSE [inst EXCEPT !.seen = @ \cup {k}]
    /\ UNCHANGED <<fs, nruns, run>>

\* variant: the script reports the failed build and goes on
BuildFailed_GoesOn(i) ==
    IF i.action = "install" THEN [i EXCEPT !.buildFailed = TRUE, !.pc = "link"]
    ELSE Return([i EXCEPT !.buildFailed = TRUE])

\* os.Exit(1) of buildGoplusTools
BuildFailed(i) == [i EXCEPT !.buildFailed = TRUE, !.pc = "done", !.exit = 1]

\* buildGoplusTools(useGoProxy)
BuildStep ==
    /\ inst.pc = "build"
    /\ LET i == InstCalled(inst, "buildGoplusTools")
       IN  IF ~checkPathExist(i.files, "cmd")
               THEN inst' = BuildFailed(i)
           ELSE \E commit \in GitOut("c1"), branch \in GitOut("main"),
                   buildVer \in GitOut("v1"), installOk \in BOOLEAN :
                   LET j == [i EXCEPT !.buildFlags =
                                          getGopBuildFlags(i.files, commit, branch, buildVer),
                                      !.goproxy = i.useGoProxy]
                   IN  inst' = IF ~installOk THEN BuildFailed(j)
                               ELSE IF j.action = "install"
                                   THEN [j EXCEPT !.files = @ \cup ToolFiles, !.pc = "link"]
                               ELSE Return([j EXCEPT !.files = @ \cup ToolFiles])
    /\ UNCHANGED <<fs, nruns, run>>

\* linkGoplusToLocal(), and the end of the install action
LinkStep ==
    /\ inst.pc = "link"
    /\ LET i == InstCalled(inst, "linkGoplusToLocal")
       IN  IF ~i.linkIsRoot /\ ~checkPathExist(i.files, "link")
               THEN \E symlinkOk \in BOOLEAN :
                       inst' = IF symlinkOk
                                   THEN Return([i EXCEPT !.files = @ \cup {"link"},
                                                         !.symlinked = TRUE])
                               ELSE Return(i)
           ELSE inst' = Return(i)
    /\ UNCHANGED <<fs, nruns, run>>

\* runTestcases(): a failure of the tests is printed only
TestStep ==
    /\ inst.pc = "test"
    /\ inst' = Return(InstCalled(inst, "runTestcases"))
    /\ UNCHANGED <<fs, nruns, run>>

\* localUninstall(): the files that exist are removed; a failure to remove
\* one is printed only, and the directory the script runs in is not removed
UninstallStep ==
    /\ inst.pc = "uninstall"
    /\ \E failed \in SUBSET (inst.files \cap FilesToRemove) :
          /\ inst.linkIsRoot => "link" \in failed
          /\ inst' = Return([InstCalled(inst, "localUninstall")
                                EXCEPT !.files = @ \ (FilesToRemove \ failed)])
    /\ UNCHANGED <<fs, nruns, run>>

NextInstall ==
    \/ InstMain
    \/ RangeStep
    \/ BuildStep
    \/ LinkStep
    \/ TestStep
    \/ UninstallStep

\* one invocation of the install script
SpecInstall == InitInstall /\ [][NextInstall]_vars

(* ------------------------------ claims --------------------------------- *)

SelectCalls(r, names) == SelectSeq(r.calls, LAMBDA c : c \in names)

ParserCalls == {"ParseDir", "Parse"}

WriteCalls == {"MkdirAll", "WriteFile"}

StageCalls == {"IsDir"} \cup ParserCalls \cup {"NewPackage"} \cup WriteCalls \cup {"goRun"}

\* the calls of the stages of the run, in the order they were made
Stages(r) == SelectCalls(r, StageCalls)

IsDone(r) == r.pc = "done"

\* the location the positional argument names, and whether it existed at the start
ArgLoc(r) == Resolve(Abs(Arg(r.args, 0)))

HasTarget(r) == NArg(r.args) >= 1

ValidTarget(r) == HasTarget(r) /\ Exists(r.fsStart, ArgLoc(r))

\* the parser has returned a package map to the run
Parsed(r) == r.pc \notin {"idle", "begin", "check", "parse"} /\ r.outcome # FatalParse
             /\ SelectCalls(r, ParserCalls) # <<>>

C2_Original ==
    \A p \in Procs :
        LET r == run[p]
        IN  (IsDone(r) /\ r.flags.asm /\ ValidTarget(r)) =>
               /\ r.outcome \in {PanicAsm, PanicProf}
               /\ SelectCalls(r, StageCalls \ {"IsDir"}) = <<>>

\* C2 amended: a run with -asm and without -prof on a valid target whose parse
\* and lowering succeed fails as unsupported after the target check, the parse
\* and the lowering, and before any write or execution is attempted
C2_AsmAfterLowering ==
    \A p \in Procs :
        LET r == run[p]
        IN  (IsDone(r) /\ r.flags.asm /\ ~r.flags.prof /\ ValidTarget(r)
             /\ r.outcome \notin {FatalParse, FatalNewPackage}) =>
               /\ r.outcome = PanicAsm
               /\ r.calls = <<"IsDir", ParserFor(r.isDir), "NewPackage">>

C2_Witness ==
    \E p \in Procs :
        /\ IsDone(run[p]) /\ run[p].flags.asm /\ ValidTarget(run[p])
        /\ run[p].outcome = PanicAsm /\ Has(run[p], "NewPackage")

\* C3: a run with -prof and a valid target fails as unsupported before the
\* target check, parse, lowering, write or execution has been attempted
C3_ProfFirst ==
    \A p \in Procs :
        LET r == run[p]
        IN  (r.pc # "begin" /\ r.flags.prof /\ ValidTarget(r)) =>
               /\ IsDone(r) /\ r.outcome = PanicProf
               /\ Stages(r) = <<>>
               /\ fs = r.fsStart

C3_Witness ==
    \E p \in Procs :
        /\ IsDone(run[p]) /\ run[p].flags.prof /\ ValidTarget(run[p])
        /\ run[p].outcome = PanicProf

\* C4 as stated: a run with no positional argument prints the usage, returns
\* without an error and performs no target check, parse, lowering, write or
\* execution
C4_UsageReturns ==
    \A p \in Procs :
        LET r == run[p]
        IN  (IsDone(r) /\ ~HasTarget(r)) =>
               /\ Has(r, "Usage")
               /\ r.outcome = Returned
               /\ Stages(r) = <<>>

Last(sq) == sq[Len(sq)]

\* C5: when goRun returns an exit error, runCmd writes the bytes attached to the
\* error to os.Stderr, after what the child wrote itself, and returns normally;
\* no fatal execution error is reported
C5_ExitErrorRelayed ==
    \A p \in Procs :
        LET r == run[p]
        IN  (IsDone(r) /\ r.err.kind = "ExitError") =>
               /\ r.outcome = Returned
               /\ Last(r.calls) = "Stderr.Write"
               /\ r.stderr # <<>>
               /\ Last(r.stderr) = [by |-> "runCmd", bytes |-> r.err.Stderr]
               /\ \A i \in 1..(Len(r.stderr) - 1) : r.stderr[i].by = "child"

C5_Witness ==
    \E p \in Procs :
        /\ IsDone(run[p]) /\ run[p].err.kind = "ExitError"
        /\ run[p].outcome = Returned
        /\ \E i \in DOMAIN run[p].stderr : run[p].stderr[i] = [by |-> "child", bytes |-> <<"boom">>]

\* C6: when goRun returns an error that is not an exit error, the run ends in
\* the fatal execution failure, and a run ends that way only then: never when
\* the child ran and exited with a non-zero status
C6_OtherErrorFatal ==
    \A p \in Procs :
        LET r == run[p]
        IN  /\ (Has(r, "goRun") /\ r.err.kind \notin {"nil", "ExitError"}) =>
                  (IsDone(r) /\ r.outcome = FatalGoRun /\ ~Has(r, "Stderr.Write"))
            /\ r.outcome = FatalGoRun =>
                  (r.err.kind = "ExecutionError" /\ r.child = "none")
            /\ r.err.kind = "ExitError" => r.outcome \in {Running, Returned}

C6_Witness ==
    \E p \in Procs :
        /\ IsDone(run[p]) /\ run[p].err.kind = "ExecutionError"
        /\ run[p].outcome = FatalGoRun /\ Last(run[p].calls) = "goRun"

\* the stages of a run in their order, for the parser the target's kind selects
StageOrder(r) ==
    <<"IsDir", ParserFor(r.isDir), "NewPackage", "MkdirAll", "WriteFile", "goRun">>

IsPrefix(a, b) == Len(a) <= Len(b) /\ a = SubSeq(b, 1, Len(a))

\* the stage whose failure an error kind reports
FailedStage(kind) ==
    CASE kind = "PathError" -> {"IsDir"}
      [] kind = "ParseError" -> ParserCalls
      [] kind \in {"MissingMainError", "LoweringError"} -> {"NewPackage"}
      [] kind = "WriteError" -> WriteCalls
      [] kind = "ExecutionError" -> {"goRun"}
      [] OTHER -> {}

FailureKinds ==
    {"PathError", "ParseError", "MissingMainError", "LoweringError", "WriteError",
     "ExecutionError"}

\* C7: the stages of a run are started in the order target check, parse,
\* lowering, write, execute, each at most once and none skipped; a run whose
\* stage failed has ended, and the failed stage is the last one it started
C7_StagesForward ==
    \A p \in Procs :
        LET r == run[p]
        IN  /\ IsPrefix(Stages(r), StageOrder(r))
            /\ r.err.kind \in FailureKinds =>
                  /\ IsDone(r)
                  /\ r.outcome \in {FatalArg, FatalParse, FatalNewPackage, FatalSave,
                                    FatalGoRun}
                  /\ Stages(r) # <<>>
                  /\ Last(Stages(r)) \in FailedStage(r.err.kind)

C7_Witness ==
    \E p \in Procs :
        /\ IsDone(run[p]) /\ run[p].err.kind = "WriteError"
        /\ run[p].outcome = FatalSave
        /\ Stages(run[p]) = <<"IsDir", "Parse", "NewPackage", "MkdirAll", "WriteFile">>

TargetMissing(r) == HasTarget(r) /\ ~Exists(r.fsStart, ArgLoc(r))

\* C8 as stated: for a target path that does not exist the run fails with the
\* path failure of the IsDir check and the parser is never called
C8_Original ==
    \A p \in Procs :
        LET r == run[p]
        IN  (IsDone(r) /\ TargetMissing(r)) =>
               /\ r.outcome = FatalArg
               /\ SelectCalls(r, ParserCalls) = <<>>

\* C8 amended: for a target path that does not exist the parser is never
\* called, and the run fails with the path failure of the IsDir check unless
\* -prof is set, in which case it fails as unsupported before the check
C8_MissingTarget ==
    \A p \in Procs :
        LET r == run[p]
        IN  TargetMissing(r) =>
               /\ SelectCalls(r, ParserCalls) = <<>>
               /\ r.pc \in {"begin", "check", "done"}
               /\ IsDone(r) =>
                     /\ ~r.flags.prof => (r.outcome = FatalArg /\ r.calls = <<"IsDir">>
                                          /\ r.err.kind = "PathError")
                     /\ r.flags.prof => (r.outcome = PanicProf /\ r.calls = <<>>)

C8_Witness ==
    \E p \in Procs :
        /\ IsDone(run[p]) /\ TargetMissing(run[p]) /\ ~run[p].flags.prof
        /\ run[p].outcome = FatalArg

\* C9: a run with -asm, whatever its target and whatever the earlier stages
\* return, creates no directory, writes no artifact and never starts the
\* toolchain
C9_AsmNoEffects ==
    \A p \in Procs :
        LET r == run[p]
        IN  r.flags.asm =>
               /\ SelectCalls(r, WriteCalls \cup {"goRun"}) = <<>>
               /\ fs = r.fsStart
               /\ r.child = "none"
               /\ r.outcome # Returned

C9_Witness ==
    \E p \in Procs :
        /\ IsDone(run[p]) /\ run[p].flags.asm /\ run[p].outcome = PanicAsm
        /\ run[p].out # NoArtifact

\* the generated files directly inside the directory at loc
Generated(f, loc) == {n \in Children(f, loc) : f[Append(loc, n)].gen}

\* C10: a successful run on a directory target writes the artifact at
\* <dir>/gop_autogen.go and changes nothing else; a later run overwrites the
\* same path, so the directory holds exactly one generated artifact
C10_DirArtifact ==
    \A p \in Procs :
        LET r == run[p]
            d == ArgLoc(r)
            g == Append(d, AutogenName)
        IN  (IsDone(r) /\ r.outcome = Returned /\ r.isDir) =>
               /\ Resolve(r.gofile) = g
               /\ Exists(fs, g) /\ fs[g] = GenNode(r.id)
               /\ DOMAIN fs = DOMAIN r.fsStart \cup {g}
               /\ \A q \in DOMAIN fs \ {g} : fs[q] = r.fsStart[q]
               /\ Generated(fs, d) = {AutogenName}

C10_Witness ==
    \E p \in Procs :
        LET r == run[p]
            g == Append(ArgLoc(r), AutogenName)
        IN  /\ IsDone(r) /\ r.outcome = Returned /\ r.isDir /\ r.id = 2
            /\ Exists(r.fsStart, g) /\ r.fsStart[g] = GenNode(1)
            /\ fs[g] = GenNode(2)

\* the run has computed its output path
HasGoFile(r) == r.gofile # <<>>

\* C11: for a single-file target the artifact path is
\* <parent of target>/.gop/<target file name>.go, and the only entry a run adds
\* to the directory of the source file is the hidden .gop directory
C11_FileArtifactHidden ==
    \A p \in Procs :
        LET r   == run[p]
            loc == ArgLoc(r)
            par == Parent(loc)
        IN  (HasGoFile(r) /\ ~r.isDir) =>
               /\ loc # <<>>
               /\ Resolve(r.gofile) = par \o <<HiddenDir, Last(loc) \o ".go">>
               /\ Children(fs, par) \ Children(r.fsStart, par) \subseteq {HiddenDir}
               /\ \A n \in Children(fs, par) \cap Children(r.fsStart, par) :
                     fs[Append(par, n)] = r.fsStart[Append(par, n)]
               /\ Generated(fs, par) = Generated(r.fsStart, par)

C11_Witness ==
    \E p \in Procs :
        LET r == run[p]
        IN  /\ IsDone(r) /\ r.outcome = Returned /\ ~r.isDir
            /\ HiddenDir \notin Children(r.fsStart, Parent(ArgLoc(r)))
            /\ HiddenDir \in Children(fs, Parent(ArgLoc(r)))
            /\ Exists(fs, Resolve(r.gofile)) /\ fs[Resolve(r.gofile)].gen

\* the run has passed the choice of the log level
LevelChosen(r) == r.pc \notin {"idle", "begin"} /\ r.outcome # UsageExit

\* C12: with -quiet the log level chosen is the suppressing one, with or
\* without -debug; the debug level is chosen exactly when -debug is set and
\* -quiet is not
C12_QuietWins ==
    \A p \in Procs :
        LET r == run[p]
        IN  LevelChosen(r) =>
               /\ r.flags.quiet => (r.logLevel = LevelQuiet /\ ~r.goxDebug)
               /\ r.logLevel = Ldebug <=> (r.flags.debug /\ ~r.flags.quiet)
               /\ r.goxDebug <=> (r.flags.debug /\ ~r.flags.quiet)

C12_Witness ==
    \E p \in Procs :
        /\ LevelChosen(run[p]) /\ run[p].flags.quiet /\ run[p].flags.debug
        /\ run[p].logLevel = LevelQuiet

\* the location of the directory saveGoFile creates
SaveDirLoc(r) == Resolve(Dir(r.gofile))

\* os.MkdirAll has failed in the run
MkdirFailed(r) == r.err.kind = "WriteError" /\ Last(r.calls) = "MkdirAll"

\* C13: saveGoFile creates the directory of the output path before the write
\* is attempted; the write is not attempted when the creation failed, the
\* creation succeeds when the directory exists already, and a failure of
\* either step is fatal, with no execution step
C13_MkdirBeforeWrite ==
    \A p \in Procs :
        LET r == run[p]
        IN  /\ Has(r, "WriteFile") =>
                  /\ SelectCalls(r, WriteCalls) = <<"MkdirAll", "WriteFile">>
                  /\ IsDirAt(fs, SaveDirLoc(r))
            /\ (Has(r, "MkdirAll") /\ IsDirAt(r.fsStart, SaveDirLoc(r))) => ~MkdirFailed(r)
            /\ r.err.kind = "WriteError" =>
                  /\ IsDone(r) /\ r.outcome = FatalSave
                  /\ ~Has(r, "goRun") /\ r.child = "none"
            /\ r.pc = "write" => IsDirAt(fs, SaveDirLoc(r))

C13_Witness ==
    \E p \in Procs :
        /\ IsDone(run[p]) /\ MkdirFailed(run[p]) /\ run[p].outcome = FatalSave
        /\ ~IsDirAt(fs, SaveDirLoc(run[p]))

\* C14: goRun runs the toolchain on the path the artifact was written to, in
\* the directory that holds it: the target directory for a directory target,
\* the hidden .gop directory for a file target
C14_RunWhereWritten ==
    \A p \in Procs :
        LET r == run[p]
        IN  Has(r, "goRun") =>
               /\ r.cmd.path = r.gofile
               /\ Exists(fs, Resolve(r.cmd.path))
               /\ fs[Resolve(r.cmd.path)] = GenNode(r.id)
               /\ Resolve(r.cmd.dir) = Parent(Resolve(r.cmd.path))
               /\ Resolve(r.cmd.dir) =
                     IF r.isDir THEN ArgLoc(r) ELSE Append(Parent(ArgLoc(r)), HiddenDir)

C14_Witness ==
    \E p \in Procs :
        /\ Has(run[p], "goRun") /\ run[p].isDir /\ run[p].child = "running"
        /\ ArgLoc(run[p]) = <<>>

\* C16: once the child has been started the run does not end while the child
\* is running: the wait is left only after the child has exited (no timeout,
\* no cancellation), and once the child has exited the run ends
C16_WaitsForChild ==
    /\ [](\A p \in Procs : IsDone(run[p]) => run[p].child # "running")
    /\ [][\A p \in Procs :
             (run[p].pc = "wait" /\ run'[p].pc # "wait") =>
                (run[p].child = "exited" /\ IsDone(run'[p]))]_vars
    /\ \A p \in Procs :
          (run[p].pc = "wait" /\ run[p].child = "exited") ~> IsDone(run[p])

C16_Witness ==
    \E p \in Procs :
        /\ run[p].pc = "wait" /\ run[p].child = "exited"
        /\ run[p].outcome = Running /\ run[p].childWrites = MaxChildWrites

\* the number of stage calls a run has made when it ends with an outcome
StagesAt(r) ==
    CASE r.outcome = PanicProf -> {0}
      [] r.outcome = FatalArg -> {1}
      [] r.outcome = FatalParse -> {2}
      [] r.outcome \in {FatalNewPackage, PanicAsm} -> {3}
      [] r.outcome = FatalSave -> {4, 5}
      [] r.outcome \in {FatalGoRun, Returned} -> {6}
      [] OTHER -> {}

\* the error a run holds when it ends with an outcome
ErrAt(r) ==
    CASE r.outcome \in {PanicProf, PanicAsm} -> {"nil"}
      [] r.outcome = FatalArg -> {"PathError"}
      [] r.outcome = FatalParse -> {"ParseError"}
      [] r.outcome = FatalNewPackage -> {"MissingMainError", "LoweringError"}
      [] r.outcome = FatalSave -> {"WriteError"}
      [] r.outcome = FatalGoRun -> {"ExecutionError"}
      [] r.outcome = Returned -> {"nil", "ExitError"}
      [] OTHER -> {}

\* C17: a run reports one failure, the first that applies in the order -prof,
\* path check, parse, lowering, -asm, write, execution: -prof with a missing
\* target is the unsupported failure, -asm with a missing target the path
\* failure, and a later failure is reported only by a run that passed every
\* earlier stage
C17_FirstFailure ==
    \A p \in Procs :
        LET r       == run[p]
            missing == ~Exists(r.fsStart, ArgLoc(r))
        IN  (IsDone(r) /\ r.outcome # UsageExit) =>
               /\ Stages(r) = SubSeq(StageOrder(r), 1, Len(Stages(r)))
               /\ Len(Stages(r)) \in StagesAt(r)
               /\ r.err.kind \in ErrAt(r)
               /\ r.flags.prof => r.outcome = PanicProf
               /\ (~r.flags.prof /\ missing) => r.outcome = FatalArg
               /\ (~r.flags.prof /\ ~missing /\ r.flags.asm) =>
                     r.outcome \in {FatalParse, FatalNewPackage, PanicAsm}
               /\ (~r.flags.prof /\ ~missing /\ ~r.flags.asm) =>
                     r.outcome \in {FatalParse, FatalNewPackage, FatalSave, FatalGoRun,
                                    Returned}

C17_Witness ==
    \E p \in Procs :
        /\ IsDone(run[p]) /\ TargetMissing(run[p])
        /\ run[p].flags.asm /\ ~run[p].flags.prof
        /\ run[p].outcome = FatalArg

\* two runs have the same target
SameTarget(r1, r2) == HasTarget(r1) /\ HasTarget(r2) /\ ArgLoc(r1) = ArgLoc(r2)

InstHas(i, f) == \E n \in 1..Len(i.calls) : i.calls[n] = f

HasSetting(flags, name) == \E n \in 1..Len(flags) : flags[n][1] = name

\* C18: in the install action linkGoplusToLocal runs only after
\* buildGoplusTools has completed successfully; when the commands directory is
\* missing or the install command fails, the process exits with status 1 and
\* no symlink is created in the invocation
C18_LinkAfterBuild ==
    inst.pc # "off" /\ inst.action = "install" =>
        /\ InstHas(inst, "linkGoplusToLocal") =>
              /\ inst.calls = <<"buildGoplusTools", "linkGoplusToLocal">>
              /\ ~inst.buildFailed
              /\ checkPathExist(inst.files0, "cmd")
              /\ ToolFiles \subseteq inst.files
        /\ inst.buildFailed =>
              /\ inst.pc = "done" /\ inst.exit = 1
              /\ ~inst.symlinked
              /\ checkPathExist(inst.files, "link") = checkPathExist(inst.files0, "link")

\* the install command of an install action failed where a link could be made
C18_Witness ==
    /\ inst.pc = "done" /\ inst.action = "install"
    /\ inst.buildFailed /\ checkPathExist(inst.files0, "cmd")
    /\ ~inst.linkIsRoot /\ ~checkPathExist(inst.files0, "link")
    /\ inst.exit = 1

\* C19: for every combination of the action flags main runs exactly one
\* action, one whose flag is set, when a flag is set, and runs no action and
\* prints the usage when none is; it never runs two actions
C19_OneAction ==
    inst.pc # "off" =>
        /\ Len(inst.ran) <= 1
        /\ \A n \in 1..Len(inst.ran) : inst.flags[inst.ran[n]]
        /\ inst.usage => inst.ran = <<>>
        /\ inst.pc = "done" =>
              IF \E k \in ActionFlags : inst.flags[k]
                  THEN Len(inst.ran) = 1 /\ ~inst.usage
              ELSE inst.ran = <<>> /\ inst.usage

\* an invocation with all four action flags has ended normally
C19_Witness ==
    /\ inst.pc = "done" /\ inst.exit = 0
    /\ \A k \in ActionFlags : inst.flags[k]
    /\ Len(inst.ran) = 1

\* C20: the build flags returned by getGopBuildFlags always contain the
\* defaultGopRoot setting and the buildDate setting, and contain the
\* buildCommit setting exactly when .git exists under the repository root
C20_BuildFlags ==
    inst.pc # "off" /\ inst.buildFlags # <<>> =>
        /\ HasSetting(inst.buildFlags, "defaultGopRoot")
        /\ HasSetting(inst.buildFlags, "buildDate")
        /\ HasSetting(inst.buildFlags, "buildCommit") = checkPathExist(inst.files, ".git")

====
